---- MODULE Spec2Model ----
(***************************************************************************)
(* Model of the tool-invocation gateway of mcp-github-resolver             *)
(* (src/src/index.ts, final revision, lines 538-910; the explicit          *)
(* dispatcher of the first revision, lines 172-264, gives the shape of     *)
(* the dispatch and of the failure envelope).                              *)
(*                                                                         *)
(* Conventions.                                                            *)
(*  - A JavaScript number is modelled as an integer count of HALVES, so    *)
(*    that non-integers exist: 2 is the number 1, 3 is 1.5, 10 is 5.       *)
(*  - A text (error message, failure message) is a sequence of words;     *)
(*    String.prototype.includes is a contiguous sub-sequence test.         *)
(*  - Texts are ASCII: the Japanese half of a bilingual message is one   *)
(*    word "ja:...".                                                      *)
(*  - JavaScript null is the sentinel string Null, undefined is a value    *)
(*    of kind "undefined".                                                 *)
(***************************************************************************)
EXTENDS Integers, Sequences, FiniteSets, TLC

VARIABLES
    phase,         \* position of the start-up code: "load", "connect", "ready", "exited"
    exitCode,      \* process exit code once phase = "exited", else -1
    GITHUB_TOKEN,  \* process.env.GITHUB_TOKEN ("" when unset)
    warned,        \* the token-format warning was printed
    req,           \* the tool invocations in flight, one record per request slot
    threads,       \* remote service: the review threads of the pull request
    pager          \* a caller that pages through get_unresolved_threads

vars == <<phase, exitCode, GITHUB_TOKEN, warned, req, threads, pager>>

-----------------------------------------------------------------------------
(* Bounds of the model *)

MaxThreads == 2   \* threads of the pull request, general specification
MaxPaged == 3     \* threads of the pull request, paging specification
MaxReq == 2       \* request slots

(* Program constants: z.number().min(1).max(100).default(5) *)
LimitMin == 1
LimitMax == 100
LimitDefault == 5

Null == "<null>"

-----------------------------------------------------------------------------
(* Values of an argument bag *)

Undefined == [kind |-> "undefined", s |-> "", n |-> 0]
Str(x) == [kind |-> "string", s |-> x, n |-> 0]
Num(h) == [kind |-> "number", s |-> "", n |-> h]

Fields == {"owner", "repo", "pullRequestNumber", "limit", "after", "threadId", "body"}

EmptyBag == [f \in Fields |-> Undefined]

(* Texts *)
Includes(text, needle) ==
    \E i \in 0..(Len(text) - Len(needle)) :
        \A k \in 1..Len(needle) : text[i + k] = needle[k]

RECURSIVE Flatten(_)
Flatten(ss) == IF ss = <<>> THEN <<>> ELSE Head(ss) \o Flatten(Tail(ss))

Digits == <<"0", "1", "2", "3", "4", "5", "6", "7", "8", "9">>

RECURSIVE IntToString(_)
IntToString(i) ==
    IF i < 10 THEN Digits[i + 1]
    ELSE IntToString(i \div 10) \o Digits[(i % 10) + 1]

(* String(n) of a non-negative number given in halves *)
NumToString(h) ==
    IF h % 2 = 0 THEN IntToString(h \div 2) ELSE IntToString(h \div 2) \o ".5"

-----------------------------------------------------------------------------
(* Tool catalog and input schemas *)

Catalog == {"get_unresolved_threads", "resolve_conversation", "reply_to_thread"}

Param(f, t) ==
    [field |-> f, type |-> t, optional |-> FALSE, hasDefault |-> FALSE,
     hasMin |-> FALSE, hasMax |-> FALSE]

GetUnresolvedThreadsSchema ==
    << Param("owner", "string"),
       Param("repo", "string"),
       Param("pullRequestNumber", "number"),
       [Param("limit", "number") EXCEPT !.hasDefault = TRUE, !.hasMin = TRUE, !.hasMax = TRUE],
       [Param("after", "string") EXCEPT !.optional = TRUE] >>

ResolveConversationSchema == << Param("threadId", "string") >>

ReplyToThreadSchema == << Param("threadId", "string"), Param("body", "string") >>

inputSchema(name) ==
    CASE name = "get_unresolved_threads" -> GetUnresolvedThreadsSchema
      [] name = "resolve_conversation" -> ResolveConversationSchema
      [] name = "reply_to_thread" -> ReplyToThreadSchema

(* zod: the issues one parameter raises for the value v *)
Issue(p, code) == [path |-> p.field, code |-> code]

(* a validator that knows no upper bound *)
ParamIssuesUnbounded(p, v) ==
    IF v.kind = "undefined"
    THEN IF p.optional \/ p.hasDefault THEN <<>> ELSE << Issue(p, "invalid_type") >>
    ELSE IF v.kind # p.type THEN << Issue(p, "invalid_type") >>
    ELSE IF p.type = "number"
         THEN (IF p.hasMin /\ v.n < 2 * LimitMin THEN << Issue(p, "too_small") >> ELSE <<>>)
         ELSE <<>>

ParamIssues(p, v) ==
    IF v.kind = "undefined"
    THEN IF p.optional \/ p.hasDefault THEN <<>> ELSE << Issue(p, "invalid_type") >>
    ELSE IF v.kind # p.type THEN << Issue(p, "invalid_type") >>
    ELSE IF p.type = "number"
         THEN (IF p.hasMin /\ v.n < 2 * LimitMin THEN << Issue(p, "too_small") >> ELSE <<>>)
              \o (IF p.hasMax /\ v.n > 2 * LimitMax THEN << Issue(p, "too_big") >> ELSE <<>>)
         ELSE <<>>

(* a validator that stops at the first parameter that raises an issue *)
SchemaIssuesFirstOnly(schema, bag) ==
    LET bad == { i \in 1..Len(schema) : ParamIssues(schema[i], bag[schema[i].field]) # << >> }
    IN  IF bad = {} THEN << >>
        ELSE LET i == CHOOSE j \in bad : \A k \in bad : j <= k
             IN  ParamIssues(schema[i], bag[schema[i].field])

(* zod object parse: every parameter is checked, issues are collected in schema order *)
SchemaIssues(schema, bag) ==
    Flatten([i \in 1..Len(schema) |-> ParamIssues(schema[i], bag[schema[i].field])])

(* the parsed value of one parameter: the default replaces undefined *)
ParamValue(p, v) ==
    IF v.kind = "undefined" /\ p.hasDefault THEN Num(2 * LimitDefault) ELSE v

(* the parsed object: unknown keys are stripped *)
SchemaParse(schema, bag) ==
    [f \in Fields |->
        IF \E i \in 1..Len(schema) : schema[i].field = f
        THEN LET i == CHOOSE j \in 1..Len(schema) : schema[j].field = f
             IN  ParamValue(schema[i], bag[f])
        ELSE Undefined]

(* ZodError.message: the list of issues, one entry per violated constraint *)
ZodErrorMessage(issues) ==
    Flatten([i \in 1..Len(issues) |-> << issues[i].code, issues[i].path >>])

-----------------------------------------------------------------------------
(* Start-up: the credential and its format check *)

ClassicPrefixes == {"ghp_", "gho_", "ghu_", "ghs_", "ghr_"}
ClassicTailLen == 36
FineGrainedMinTail == 22

(* A credential: its text, and what the two regular expressions look at *)
Token(value, prefix, tail, charset) ==
    [value |-> value, prefix |-> prefix, tail |-> tail, charset |-> charset]

classicTokenRegex(t) ==
    t.prefix \in ClassicPrefixes /\ t.charset = "alnum" /\ t.tail = ClassicTailLen

fineGrainedTokenRegex(t) ==
    t.prefix = "github_pat_" /\ t.charset \in {"alnum", "alnum_"} /\ t.tail >= FineGrainedMinTail

Unset == Token("", "", 0, "alnum")

Environments ==
    { Unset,
      Token("ghp_a1", "ghp_", ClassicTailLen, "alnum"),
      Token("hunter2", "", 7, "alnum") }

-----------------------------------------------------------------------------
(* Remote Operation Client: graphqlRequest *)

BadCredentials == << "Bad", "credentials" >>
NotFound == << "Not", "Found" >>

AuthenticationFailed ==
    << "Authentication", "failed:", "Invalid", "GITHUB_TOKEN", "/", "ja:authentication-failed" >>

ResourceNotFound == << "Resource", "not", "found", "/", "ja:resource-not-found:" >>

GraphQLError == << "GraphQL", "Error", "/", "ja:graphql-error:" >>

UnknownError == << "Unknown", "error", "/", "ja:unknown-error:" >>

Data(d) == [kind |-> "data", data |-> d]
Throw(isErr, msg) == [kind |-> "throw", isError |-> isErr, message |-> msg]

Returned(v) == [threw |-> FALSE, value |-> v]
Thrown(msg) == [threw |-> TRUE, message |-> msg]

(* a client whose authentication message quotes the remote text *)
graphqlRequestLeaky(reply) ==
    IF reply.kind = "data" THEN Returned(reply.data)
    ELSE IF reply.isError
         THEN IF Includes(reply.message, BadCredentials)
              THEN Thrown(AuthenticationFailed \o reply.message)
              ELSE IF Includes(reply.message, NotFound)
                   THEN Thrown(ResourceNotFound \o reply.message)
                   ELSE Thrown(GraphQLError \o reply.message)
         ELSE Thrown(UnknownError \o reply.message)

(* the outcome of the one awaited call, given what the transport answered *)
graphqlRequest(reply) ==
    IF reply.kind = "data" THEN Returned(reply.data)
    ELSE IF reply.isError
         THEN IF Includes(reply.message, BadCredentials)
              THEN Thrown(AuthenticationFailed)
              ELSE IF Includes(reply.message, NotFound)
                   THEN Thrown(ResourceNotFound \o reply.message)
                   ELSE Thrown(GraphQLError \o reply.message)
         ELSE Thrown(UnknownError \o reply.message)

-----------------------------------------------------------------------------
(* The three tool handlers *)

(* a handler that never forwards the caller's cursor *)
OutboundDropsCursor(name, a) ==
    CASE name = "get_unresolved_threads" ->
            [query |-> "GET_UNRESOLVED_THREADS_QUERY",
             variables |-> [owner |-> a.owner.s,
                            repo |-> a.repo.s,
                            pullRequestNumber |-> a.pullRequestNumber.n,
                            first |-> a.limit.n,
                            after |-> Null]]
      [] name = "resolve_conversation" ->
            [query |-> "RESOLVE_THREAD_MUTATION",
             variables |-> [threadId |-> a.threadId.s]]
      [] name = "reply_to_thread" ->
            [query |-> "ADD_REPLY_MUTATION",
             variables |-> [threadId |-> a.threadId.s, body |-> a.body.s]]

(* the query or mutation, and its variables, a handler sends *)
Outbound(name, a) ==
    CASE name = "get_unresolved_threads" ->
            [query |-> "GET_UNRESOLVED_THREADS_QUERY",
             variables |-> [owner |-> a.owner.s,
                            repo |-> a.repo.s,
                            pullRequestNumber |-> a.pullRequestNumber.n,
                            first |-> a.limit.n,
                            after |-> IF a.after.kind = "undefined" THEN Null ELSE a.after.s]]
      [] name = "resolve_conversation" ->
            [query |-> "RESOLVE_THREAD_MUTATION",
             variables |-> [threadId |-> a.threadId.s]]
      [] name = "reply_to_thread" ->
            [query |-> "ADD_REPLY_MUTATION",
             variables |-> [threadId |-> a.threadId.s, body |-> a.body.s]]

(* a mapping without the sentinel: an absent author stays absent *)
FirstCommentNoSentinel(thread) ==
    IF Len(thread.comments) > 0
    THEN [isNull |-> FALSE,
          author |-> thread.comments[1].author,
          body |-> thread.comments[1].body]
    ELSE [isNull |-> TRUE, author |-> "", body |-> ""]

(* thread.comments.nodes[0] ? {author: ...?.login ?? "unknown", body} : null *)
FirstComment(thread) ==
    IF Len(thread.comments) > 0
    THEN [isNull |-> FALSE,
          author |-> IF thread.comments[1].author = Null THEN "unknown"
                     ELSE thread.comments[1].author,
          body |-> thread.comments[1].body]
    ELSE [isNull |-> TRUE, author |-> "", body |-> ""]

(* a filter with the test inverted *)
ResolvedOnly(thread) == thread.isResolved

Unresolved(thread) == ~thread.isResolved

MapThread(thread) == [id |-> thread.id, firstComment |-> FirstComment(thread)]

(* nodes.filter(...).map(...) *)
UnresolvedThreads(nodes) ==
    LET kept == SelectSeq(nodes, Unresolved)
    IN  [i \in 1..Len(kept) |-> MapThread(kept[i])]

(* a result that loses the continuation cursor *)
PageInfoDropsCursor(pageInfo) ==
    [hasNextPage |-> pageInfo.hasNextPage, endCursor |-> Null]

PageInfoOut(pageInfo) ==
    [hasNextPage |-> pageInfo.hasNextPage, endCursor |-> pageInfo.endCursor]

RepositoryNotFound(owner, repo) ==
    << "Repository", "not", "found:", owner, "/", repo, "/",
       "ja:repository-not-found:", owner, "/", repo >>

PullRequestNotFound(n) ==
    << "Pull", "request", "not", "found:", "#" \o NumToString(n), "/",
       "ja:pull-request-not-found:", "#" \o NumToString(n) >>

(* a handler without the pull-request check: reading reviewThreads of null throws *)
GetUnresolvedThreadsNoPullCheck(a, data) ==
    IF ~data.hasRepository
    THEN Thrown(RepositoryNotFound(a.owner.s, a.repo.s))
    ELSE IF ~data.hasPullRequest
    THEN Thrown(<< "Cannot", "read", "properties", "of", "null" >>)
    ELSE LET unresolvedThreads == UnresolvedThreads(data.nodes)
         IN  Returned([count |-> Len(unresolvedThreads),
                       threads |-> unresolvedThreads,
                       pageInfo |-> PageInfoOut(data.pageInfo)])

(* get_unresolved_threads, after the awaited call returned `data` *)
GetUnresolvedThreads(a, data) ==
    IF ~data.hasRepository
    THEN Thrown(RepositoryNotFound(a.owner.s, a.repo.s))
    ELSE IF ~data.hasPullRequest
    THEN Thrown(PullRequestNotFound(a.pullRequestNumber.n))
    ELSE LET unresolvedThreads == UnresolvedThreads(data.nodes)
         IN  Returned([count |-> Len(unresolvedThreads),
                       threads |-> unresolvedThreads,
                       pageInfo |-> PageInfoOut(data.pageInfo)])

ResolveConversationEchoing(a, data) ==
    Returned([success |-> TRUE,
              threadId |-> a.threadId.s,
              isResolved |-> data.thread.isResolved])

ResolveConversation(a, data) ==
    Returned([success |-> TRUE,
              threadId |-> data.thread.id,
              isResolved |-> data.thread.isResolved])

(* a handler that builds the comment URL from its own argument *)
ReplyToThreadRebuildsUrl(a, data) ==
    Returned([success |-> TRUE,
              commentUrl |-> "https://github.com/octo/hello/pull/1#" \o a.threadId.s])

ReplyToThread(a, data) ==
    Returned([success |-> TRUE, commentUrl |-> data.url])

(* a handler from the awaited call on: a thrown failure passes through *)
Handler(name, a, reply) ==
    LET got == graphqlRequest(reply)
    IN  IF got.threw THEN got
        ELSE CASE name = "get_unresolved_threads" -> GetUnresolvedThreads(a, got.value)
               [] name = "resolve_conversation" -> ResolveConversation(a, got.value)
               [] name = "reply_to_thread" -> ReplyToThread(a, got.value)

-----------------------------------------------------------------------------
(* Result envelope *)

TextBlock(t) == [type |-> "text", text |-> t]

SuccessEnvelope(value) == [isError |-> FALSE, content |-> << TextBlock(value) >>]

(* an envelope that carries the message but not the error flag *)
FailureEnvelopeUnflagged(message) ==
    [isError |-> FALSE, content |-> << TextBlock([error |-> message]) >>]

FailureEnvelope(message) == [isError |-> TRUE, content |-> << TextBlock([error |-> message]) >>]

Envelope(ret) ==
    IF ret.threw THEN FailureEnvelope(ret.message) ELSE SuccessEnvelope(ret.value)

NoEnvelope == [isError |-> FALSE, content |-> << >>]

-----------------------------------------------------------------------------
(* The remote service: one repository, one pull request, its review threads *)

ThePull == [owner |-> "octo", repo |-> "hello", number |-> 2]   \* pull request #1, in halves

ThreadId(k) == "T" \o IntToString(k)

(* a node is also known under the identifier of the older format; the remote accepts
   either and answers with the node's own id *)
LegacyId(id) == "legacy:" \o id

Addressed(ths, threadId) ==
    { j \in 1..Len(ths) : ths[j].id = threadId \/ LegacyId(ths[j].id) = threadId }

Cursor(k) == "c" \o IntToString(k)

Comment(author, body) == [author |-> author, body |-> body]

(* the shapes a thread can have: resolved or not, and its first comments *)
ThreadShapes ==
    { [isResolved |-> FALSE, comments |-> << >>],
      [isResolved |-> FALSE, comments |-> << Comment(Null, "ghost wrote") >>],
      [isResolved |-> FALSE, comments |-> << Comment("alice", "please fix") >>],
      [isResolved |-> TRUE, comments |-> << Comment("bob", "done") >>] }

ThreadLists ==
    UNION { { [k \in 1..n |-> [id |-> ThreadId(k),
                               isResolved |-> f[k].isResolved,
                               comments |-> f[k].comments]] :
              f \in [1..n -> ThreadShapes] } : n \in 0..MaxThreads }

(* thread lists for the paging caller: only the resolved flag matters to it *)
PagedShapes ==
    { [isResolved |-> FALSE, comments |-> << Comment("alice", "please fix") >>],
      [isResolved |-> TRUE, comments |-> << Comment("bob", "done") >>] }

PagedLists ==
    UNION { { [k \in 1..n |-> [id |-> ThreadId(k),
                               isResolved |-> f[k].isResolved,
                               comments |-> f[k].comments]] :
              f \in [1..n -> PagedShapes] } : n \in 0..MaxPaged }

(* the position a cursor stands for: 0 for null, -1 for a cursor the remote never issued *)
CursorPos(ths, c) ==
    IF c = Null THEN 0
    ELSE IF \E k \in 1..Len(ths) : Cursor(k) = c
         THEN CHOOSE k \in 1..Len(ths) : Cursor(k) = c
         ELSE -1

Min(a, b) == IF a < b THEN a ELSE b

(* reviewThreads(first: n, after: cursor at pos) { pageInfo, nodes } *)
Page(ths, n, pos) ==
    LET last == Min(pos + n, Len(ths))
    IN  [hasRepository |-> TRUE,
         hasPullRequest |-> TRUE,
         nodes |-> SubSeq(ths, pos + 1, last),
         pageInfo |-> [hasNextPage |-> last < Len(ths),
                       endCursor |-> IF last > pos THEN Cursor(last) ELSE Null]]

NoRepository ==
    [hasRepository |-> FALSE, hasPullRequest |-> FALSE, nodes |-> << >>,
     pageInfo |-> [hasNextPage |-> FALSE, endCursor |-> Null]]

NoPullRequest == [NoRepository EXCEPT !.hasRepository = TRUE]

(* what the transport may throw at any call *)
(* what the remote says when it refuses the body of a reply *)
BodyRejected == << "Body", "cannot", "be", "blank" >>

ErrorTexts(token) ==
    { BadCredentials,
      NotFound,
      << "HttpError:", "Bad", "credentials", "-", "Not", "Found" >>,
      << "Bad", "credentials", "for", token.value >>,
      << "bad", "credentials" >>,
      << "Not", "really", "Found" >>,
      BodyRejected }

Failures(token) ==
    { Throw(TRUE, t) : t \in ErrorTexts(token) } \cup { Throw(FALSE, << "socket", "hang", "up" >>) }

(* the data the remote answers a well-formed operation with, and the thread list after it *)
Answers(op, ths) ==
    LET v == op.variables
    IN  CASE op.query = "GET_UNRESOLVED_THREADS_QUERY" ->
                IF v.pullRequestNumber % 2 # 0 \/ v.first % 2 # 0 THEN {}
                ELSE IF v.owner # ThePull.owner \/ v.repo # ThePull.repo
                     THEN { [reply |-> Data(NoRepository), threads |-> ths] }
                ELSE IF v.pullRequestNumber # ThePull.number
                     THEN { [reply |-> Data(NoPullRequest), threads |-> ths] }
                ELSE IF CursorPos(ths, v.after) < 0 THEN {}
                ELSE { [reply |-> Data(Page(ths, v.first \div 2, CursorPos(ths, v.after))),
                        threads |-> ths] }
          [] op.query = "RESOLVE_THREAD_MUTATION" ->
                { [reply |-> Data([thread |-> [id |-> ths[k].id, isResolved |-> TRUE]]),
                   threads |-> [ths EXCEPT ![k].isResolved = TRUE]] :
                  k \in Addressed(ths, v.threadId) }
          [] op.query = "ADD_REPLY_MUTATION" ->
                { [reply |-> Data([url |-> "https://github.com/octo/hello/pull/1#" \o ths[k].id]),
                   threads |-> ths] :
                  k \in { j \in Addressed(ths, v.threadId) : v.body # "" } }

(* every way the remote can end the call: an answer, or a failure that changes nothing *)
RemoteOutcomes(op, ths, token) ==
    Answers(op, ths) \cup { [reply |-> f, threads |-> ths] : f \in Failures(token) }

-----------------------------------------------------------------------------
(* The tool gateway: one record per request slot *)

Reqs == 1..MaxReq

(* the slot the serial specifications use: one request at a time *)
Serial == { 1 }

NoOp == [query |-> "none", variables |-> << >>]
NoReply == [kind |-> "none"]

IdleSlot ==
    [pc |-> "idle", caller |-> "none", name |-> "", args |-> EmptyBag, validated |-> FALSE,
     op |-> NoOp, calls |-> 0, reply |-> NoReply, result |-> NoEnvelope]

(* a gateway whose unknown-tool message leaves the name out *)
UnknownToolNameless(name) == << "Unknown", "tool" >>

(* the message of the explicit dispatcher, in English *)
UnknownTool(name) == << "Unknown", "tool:", name >>

(* a request up to its first await: look the tool up, validate, send the one operation *)
Dispatch(caller, name, bag) ==
    LET slot == [IdleSlot EXCEPT !.caller = caller, !.name = name, !.args = bag]
    IN  IF name \notin Catalog
        THEN [slot EXCEPT !.pc = "done", !.result = FailureEnvelope(UnknownTool(name))]
        ELSE LET issues == SchemaIssues(inputSchema(name), bag)
             IN  IF issues # << >>
                 THEN [slot EXCEPT !.pc = "done", !.validated = TRUE,
                                   !.result = FailureEnvelope(ZodErrorMessage(issues))]
                 ELSE [slot EXCEPT !.pc = "waiting", !.validated = TRUE, !.calls = 1,
                                   !.op = Outbound(name, SchemaParse(inputSchema(name), bag))]

(* a client that sends the operation again when the call fails *)
ResumeRetrying(slot, reply) ==
    IF reply.kind = "throw" /\ slot.calls < 2
    THEN [slot EXCEPT !.calls = @ + 1]
    ELSE [slot EXCEPT !.pc = "done", !.reply = reply,
                      !.result = Envelope(Handler(slot.name,
                                                  SchemaParse(inputSchema(slot.name), slot.args),
                                                  reply))]

(* the request from the answer of its awaited call to its result *)
Resume(slot, reply) ==
    [slot EXCEPT !.pc = "done", !.reply = reply,
                 !.result = Envelope(Handler(slot.name,
                                             SchemaParse(inputSchema(slot.name), slot.args),
                                             reply))]

-----------------------------------------------------------------------------
(* What callers send *)

ArgValues(f) ==
    CASE f = "owner" -> { Undefined, Num(2), Str(""), Str("octo") }
      [] f = "repo" -> { Undefined, Str(""), Str("hello"), Str("other") }
      [] f = "pullRequestNumber" -> { Undefined, Str("1"), Num(2), Num(3), Num(4) }
      [] f = "limit" -> { Undefined, Str("5"), Num(0), Num(1), Num(2), Num(3), Num(4),
                          Num(2 * LimitMax), Num(2 * LimitMax + 1), Num(2 * LimitMax + 2) }
      [] f = "after" -> { Undefined, Num(2), Str("bogus") } \cup { Str(Cursor(k)) : k \in 1..MaxThreads }
      [] f = "threadId" -> { Undefined, Num(2), Str(""), Str(LegacyId(ThreadId(1))) }
                            \cup { Str(ThreadId(k)) : k \in 0..MaxThreads }
      [] f = "body" -> { Undefined, Num(2), Str(""), Str("LGTM") }

BaseGet ==
    [EmptyBag EXCEPT !.owner = Str(ThePull.owner), !.repo = Str(ThePull.repo),
                     !.pullRequestNumber = Num(ThePull.number)]

GetFields == {"owner", "repo", "pullRequestNumber", "limit", "after"}

(* the valid base call with up to two of its arguments replaced *)
GetBags ==
    UNION { { [BaseGet EXCEPT ![f] = v, ![g] = w] : v \in ArgValues(f), w \in ArgValues(g) } :
            f \in GetFields, g \in GetFields }

ResolveBags == { [EmptyBag EXCEPT !.threadId = v] : v \in ArgValues("threadId") }

ReplyBags ==
    { [EmptyBag EXCEPT !.threadId = v, !.body = w] :
      v \in { Undefined, Str(ThreadId(0)), Str(ThreadId(1)), Str(LegacyId(ThreadId(1))) },
      w \in ArgValues("body") }

UnknownNames == { "delete_thread", "", "Get_Unresolved_Threads" }

Requests ==
    { [name |-> "get_unresolved_threads", bag |-> b] : b \in GetBags }
    \cup { [name |-> "resolve_conversation", bag |-> b] : b \in ResolveBags }
    \cup { [name |-> "reply_to_thread", bag |-> b] : b \in ReplyBags }
    \cup { [name |-> n, bag |-> b] : n \in UnknownNames, b \in { EmptyBag, BaseGet } }

-----------------------------------------------------------------------------
(* A caller that pages: after = the previous endCursor, until hasNextPage is false *)

PagerOff ==
    [state |-> "off", limit |-> Undefined, after |-> Null, got |-> << >>, pages |-> 0,
     dirty |-> FALSE]

PagerLimits == { Undefined } \cup { Num(2 * k) : k \in 1..MaxPaged }

MaxPages == MaxPaged + 2

PagerBag ==
    [BaseGet EXCEPT !.limit = pager.limit,
                    !.after = IF pager.after = Null THEN Undefined ELSE Str(pager.after)]

(* the caller has asked for its first page: a change of the thread list from here on
   is a change "meanwhile" *)
Paging == pager.state \in { "calling", "finished", "failed" } \/ pager.pages > 0

-----------------------------------------------------------------------------
(* Actions *)

Init ==
    /\ phase = "load"
    /\ exitCode = -1
    /\ GITHUB_TOKEN \in Environments
    /\ warned = FALSE
    /\ req = [r \in Reqs |-> IdleSlot]
    /\ threads \in ThreadLists
    /\ pager = PagerOff

(* the top of the script: the credential is required, its format only warned about *)
LoadEnv ==
    /\ phase = "load"
    /\ IF GITHUB_TOKEN.value = ""
       THEN phase' = "exited" /\ exitCode' = 1 /\ UNCHANGED warned
       ELSE /\ phase' = "connect"
            /\ warned' = (~classicTokenRegex(GITHUB_TOKEN) /\ ~fineGrainedTokenRegex(GITHUB_TOKEN))
            /\ UNCHANGED exitCode
    /\ UNCHANGED <<GITHUB_TOKEN, req, threads, pager>>

(* main(): await server.connect(transport) resolves *)
Connected ==
    /\ phase = "connect"
    /\ phase' = "ready"
    /\ UNCHANGED <<exitCode, GITHUB_TOKEN, warned, req, threads, pager>>

(* main().catch: the connection was rejected, process.exit(1) *)
ConnectFailed ==
    /\ phase = "connect"
    /\ phase' = "exited"
    /\ exitCode' = 1
    /\ UNCHANGED <<GITHUB_TOKEN, warned, req, threads, pager>>

(* a server that services requests whatever the start-up code has reached *)
ReceiveAnytime(r, name, bag) ==
    /\ req[r].pc = "idle"
    /\ req' = [req EXCEPT ![r] = Dispatch("agent", name, bag)]
    /\ UNCHANGED <<phase, exitCode, GITHUB_TOKEN, warned, threads, pager>>

(* a tools/call request arrives *)
Receive(r, name, bag) ==
    /\ phase = "ready"
    /\ req[r].pc = "idle"
    /\ req' = [req EXCEPT ![r] = Dispatch("agent", name, bag)]
    /\ UNCHANGED <<phase, exitCode, GITHUB_TOKEN, warned, threads, pager>>

(* a client with one connection: the answer to one call cuts off every other call
   that is waiting *)
RemoteReplyShared(r) ==
    /\ phase = "ready"
    /\ req[r].pc = "waiting"
    /\ \E o \in RemoteOutcomes(req[r].op, threads, GITHUB_TOKEN) :
          /\ req' = [s \in Reqs |->
                        IF s = r THEN Resume(req[s], o.reply)
                        ELSE IF req[s].pc = "waiting"
                             THEN Resume(req[s], Throw(FALSE, << "socket", "hang", "up" >>))
                             ELSE req[s]]
          /\ threads' = o.threads
          /\ pager' = [pager EXCEPT !.dirty = @ \/ (Paging /\ o.threads # threads)]
    /\ UNCHANGED <<phase, exitCode, GITHUB_TOKEN, warned>>

(* the remote service ends the awaited call and the handler runs to its result *)
RemoteReply(r) ==
    /\ phase = "ready"
    /\ req[r].pc = "waiting"
    /\ \E o \in RemoteOutcomes(req[r].op, threads, GITHUB_TOKEN) :
          /\ req' = [req EXCEPT ![r] = Resume(req[r], o.reply)]
          /\ threads' = o.threads
          /\ pager' = [pager EXCEPT !.dirty = @ \/ (Paging /\ o.threads # threads)]
    /\ UNCHANGED <<phase, exitCode, GITHUB_TOKEN, warned>>

(* the result envelope is sent back *)
Deliver(r) ==
    /\ req[r].pc = "done"
    /\ req[r].caller = "agent"
    /\ req' = [req EXCEPT ![r] = IdleSlot]
    /\ UNCHANGED <<phase, exitCode, GITHUB_TOKEN, warned, threads, pager>>

(* the paging caller asks for its next page *)
PagerInvoke(r) ==
    /\ phase = "ready"
    /\ pager.state = "idle"
    /\ pager.pages < MaxPages
    /\ req[r].pc = "idle"
    /\ req' = [req EXCEPT ![r] = Dispatch("pager", "get_unresolved_threads", PagerBag)]
    /\ pager' = [pager EXCEPT !.state = "calling"]
    /\ UNCHANGED <<phase, exitCode, GITHUB_TOKEN, warned, threads>>

(* the paging caller reads a result: it keeps the threads and follows pageInfo *)
PagerCollect(r) ==
    /\ req[r].pc = "done"
    /\ req[r].caller = "pager"
    /\ LET res == req[r].result
       IN  IF res.isError
           THEN pager' = [pager EXCEPT !.state = "failed"]
           ELSE LET out == res.content[1].text
                IN  pager' = [pager EXCEPT
                                !.got = @ \o [i \in 1..Len(out.threads) |-> out.threads[i].id],
                                !.after = out.pageInfo.endCursor,
                                !.pages = @ + 1,
                                !.state = IF out.pageInfo.hasNextPage THEN "idle" ELSE "finished"]
    /\ req' = [req EXCEPT ![r] = IdleSlot]
    /\ UNCHANGED <<phase, exitCode, GITHUB_TOKEN, warned, threads>>

Next ==
    \/ LoadEnv
    \/ Connected
    \/ ConnectFailed
    \/ \E r \in Serial : \E q \in Requests : Receive(r, q.name, q.bag)
    \/ \E r \in Serial : RemoteReply(r)
    \/ \E r \in Serial : Deliver(r)

Spec == Init /\ [][Next]_vars

(* the paging caller at work, while another caller resolves threads *)
InitPaging ==
    /\ phase = "ready"
    /\ exitCode = -1
    /\ GITHUB_TOKEN \in { t \in Environments : classicTokenRegex(t) }
    /\ warned = FALSE
    /\ req = [r \in Reqs |-> IdleSlot]
    /\ threads \in PagedLists
    /\ \E l \in PagerLimits : pager = [PagerOff EXCEPT !.state = "idle", !.limit = l]

NextPaging ==
    \/ \E r \in Serial : PagerInvoke(r)
    \/ \E r \in Serial : PagerCollect(r)
    \/ \E r \in Serial : \E k \in 1..Len(threads) :
          Receive(r, "resolve_conversation", [EmptyBag EXCEPT !.threadId = Str(ThreadId(k))])
    \/ \E r \in Serial : RemoteReply(r)
    \/ \E r \in Serial : Deliver(r)

SpecPaging == InitPaging /\ [][NextPaging]_vars

(* requests in flight together: every slot takes requests, each handler is suspended
   at its await and resumed when its own call ends *)
ConcurrentRequests ==
    { [name |-> "get_unresolved_threads", bag |-> BaseGet],
      [name |-> "get_unresolved_threads", bag |-> [BaseGet EXCEPT !.limit = Num(0)]],
      [name |-> "resolve_conversation", bag |-> [EmptyBag EXCEPT !.threadId = Str(ThreadId(1))]],
      [name |-> "reply_to_thread",
       bag |-> [EmptyBag EXCEPT !.threadId = Str(ThreadId(1)), !.body = Str("LGTM")]],
      [name |-> "delete_thread", bag |-> EmptyBag] }

InitConcurrent ==
    /\ phase = "load"
    /\ exitCode = -1
    /\ GITHUB_TOKEN \in { t \in Environments : classicTokenRegex(t) }
    /\ warned = FALSE
    /\ req = [r \in Reqs |-> IdleSlot]
    /\ threads \in { ths \in ThreadLists : Len(ths) = 1 }
    /\ pager = PagerOff

NextConcurrent ==
    \/ LoadEnv
    \/ Connected
    \/ \E r \in Reqs : \E q \in ConcurrentRequests : Receive(r, q.name, q.bag)
    \/ \E r \in Reqs : RemoteReply(r)
    \/ \E r \in Reqs : Deliver(r)

SpecConcurrent == InitConcurrent /\ [][NextConcurrent]_vars

-----------------------------------------------------------------------------
(* Properties *)

ToolNames == { "get_unresolved_threads", "resolve_conversation", "reply_to_thread" }

Words(text) == { text[i] : i \in 1..Len(text) }

(* the message of a failure envelope *)
FailureText(slot) == slot.result.content[1].text.error

Failed(slot) ==
    /\ slot.pc = "done"
    /\ slot.result.isError
    /\ Len(slot.result.content) = 1
    /\ DOMAIN slot.result.content[1].text = { "error" }

(* the constraints of the published input shapes, field by field *)
RequiredFields(name) ==
    CASE name = "get_unresolved_threads" -> { "owner", "repo", "pullRequestNumber" }
      [] name = "resolve_conversation" -> { "threadId" }
      [] name = "reply_to_thread" -> { "threadId", "body" }
      [] OTHER -> {}

KnownFields(name) ==
    IF name = "get_unresolved_threads" THEN RequiredFields(name) \cup { "limit", "after" }
    ELSE RequiredFields(name)

NumberFields == { "pullRequestNumber", "limit" }

Offending(name, bag) ==
    { f \in KnownFields(name) :
        \/ f \in RequiredFields(name) /\ bag[f].kind = "undefined"
        \/ bag[f].kind # "undefined" /\ f \in NumberFields /\ bag[f].kind # "number"
        \/ bag[f].kind # "undefined" /\ f \notin NumberFields /\ bag[f].kind # "string"
        \/ f = "limit" /\ bag[f].kind = "number" /\ (bag[f].n < 2 \/ bag[f].n > 200) }

(* C1: a request for a name outside the three tools ends at once in a failure whose
   message mentions that name; the validator did not run and no remote operation
   was sent. *)
C1_UnknownToolRejected ==
    \A r \in Reqs :
        (req[r].pc # "idle" /\ req[r].name \notin ToolNames) =>
            /\ Failed(req[r])
            /\ req[r].name \in Words(FailureText(req[r]))
            /\ ~req[r].validated
            /\ req[r].calls = 0
            /\ req[r].op = NoOp

C1_Witness ==
    \E r \in Reqs :
        /\ req[r].pc = "done"
        /\ req[r].name = "delete_thread"
        /\ req[r].args = BaseGet
        /\ req[r].result.isError

(* C2: a call to a known tool with a missing required, wrongly typed or out-of-range
   argument fails with no remote operation sent, and its message has one entry per
   offending field, naming it. *)
C2_ValidationFailsLocally ==
    \A r \in Reqs :
        (req[r].pc # "idle" /\ req[r].name \in ToolNames
            /\ Offending(req[r].name, req[r].args) # {}) =>
            /\ Failed(req[r])
            /\ req[r].calls = 0
            /\ req[r].op = NoOp
            /\ req[r].reply = NoReply
            /\ \A f \in Offending(req[r].name, req[r].args) : f \in Words(FailureText(req[r]))
            /\ Len(FailureText(req[r])) = 2 * Cardinality(Offending(req[r].name, req[r].args))

C2_Witness ==
    \E r \in Reqs :
        /\ req[r].pc = "done"
        /\ req[r].name = "get_unresolved_threads"
        /\ Offending(req[r].name, req[r].args) = { "owner", "limit" }
        /\ req[r].args.limit = Num(2 * LimitMax + 2)
        /\ req[r].result.isError

(* C3: an invocation sends exactly one remote operation when its tool is known and
   its arguments are valid, none otherwise; a failed operation is not sent again and
   a page that announces a next page is not followed. *)
C3_OneRemoteOperation ==
    \A r \in Reqs :
        req[r].pc # "idle" =>
            /\ req[r].calls =
                 IF req[r].name \in ToolNames /\ Offending(req[r].name, req[r].args) = {}
                 THEN 1 ELSE 0
            /\ req[r].reply.kind = "throw" => (req[r].pc = "done" /\ req[r].result.isError)
            /\ req[r].reply.kind = "data" => req[r].pc = "done"

C3_Witness ==
    /\ \E r \in Reqs :
        /\ req[r].pc = "done"
        /\ req[r].name = "get_unresolved_threads"
        /\ req[r].calls = 1
        /\ req[r].reply.kind = "data"
        /\ req[r].reply.data.pageInfo.hasNextPage
        /\ ~req[r].result.isError

C3_WitnessFailure ==
    \E r \in Reqs :
        /\ req[r].pc = "done"
        /\ req[r].calls = 1
        /\ req[r].reply.kind = "throw"

(* the payload of a success envelope *)
Payload(slot) == slot.result.content[1].text

Succeeded(slot) ==
    /\ slot.pc = "done"
    /\ ~slot.result.isError
    /\ Len(slot.result.content) = 1

NoDuplicates(seq) == \A i, j \in 1..Len(seq) : seq[i] = seq[j] => i = j

(* the index in nodes of its i-th thread with resolved = false *)
NthUnresolved(nodes, i) ==
    CHOOSE j \in 1..Len(nodes) :
        /\ ~nodes[j].isResolved
        /\ Cardinality({ k \in 1..j : ~nodes[k].isResolved }) = i

UnresolvedCount(nodes) == Cardinality({ k \in 1..Len(nodes) : ~nodes[k].isResolved })

(* a page was fetched: the remote answered with a repository and a pull request *)
GotPage(slot) ==
    /\ slot.pc = "done"
    /\ slot.name = "get_unresolved_threads"
    /\ slot.reply.kind = "data"
    /\ slot.reply.data.hasRepository
    /\ slot.reply.data.hasPullRequest

(* C4: while the thread list is unchanged, the paging caller never receives a thread
   twice; a page after which threads remain unfetched says hasNextPage = true; and
   when the caller stops on hasNextPage = false it holds every unresolved thread of
   the pull request exactly once, in the remote order. *)
C4_PagingComplete ==
    ~pager.dirty =>
        /\ NoDuplicates(pager.got)
        /\ pager.pages < MaxPages
        /\ pager.state = "finished" =>
              /\ Len(pager.got) = UnresolvedCount(threads)
              /\ \A i \in 1..Len(pager.got) : pager.got[i] = threads[NthUnresolved(threads, i)].id
        /\ \A r \in Reqs :
              (GotPage(req[r]) /\ req[r].caller = "pager") =>
                  /\ Succeeded(req[r])
                  /\ (CursorPos(threads, req[r].op.variables.after) + Len(req[r].reply.data.nodes)
                        < Len(threads)) => Payload(req[r]).pageInfo.hasNextPage

(* the caller finished after at least three pages, one of them with count 0 *)
C4_Witness ==
    /\ ~pager.dirty
    /\ pager.state = "finished"
    /\ pager.pages >= 3
    /\ Len(pager.got) = 1
    /\ Len(threads) = 3
    /\ threads[1].isResolved /\ threads[2].isResolved /\ ~threads[3].isResolved

(* C5: the threads of a result are the threads of the remote page with resolved =
   false, in the order of the page, and count is their number; a page without an
   unresolved thread is a success with count 0 and no thread. *)
C5_FilterKeepsOrder ==
    \A r \in Reqs :
        GotPage(req[r]) =>
            LET nodes == req[r].reply.data.nodes
                out == Payload(req[r])
            IN  /\ Succeeded(req[r])
                /\ out.count = UnresolvedCount(nodes)
                /\ Len(out.threads) = out.count
                /\ \A i \in 1..Len(out.threads) :
                      out.threads[i].id = nodes[NthUnresolved(nodes, i)].id

(* a page of two threads, the first resolved *)
C5_Witness ==
    \E r \in Reqs :
        /\ GotPage(req[r])
        /\ Len(req[r].reply.data.nodes) = 2
        /\ req[r].reply.data.nodes[1].isResolved
        /\ ~req[r].reply.data.nodes[2].isResolved
        /\ Payload(req[r]).count = 1

(* a page whose threads are all resolved *)
C5_WitnessEmpty ==
    \E r \in Reqs :
        /\ GotPage(req[r])
        /\ Len(req[r].reply.data.nodes) > 0
        /\ Payload(req[r]).count = 0
        /\ ~req[r].result.isError

(* C6: the pageInfo of a result is the pageInfo of the remote page, whatever was
   filtered out; the outbound variables carry after = X when the caller passed X and
   null when it passed none. *)
C6_PageInfoEchoed ==
    \A r \in Reqs :
        /\ GotPage(req[r]) =>
              /\ Succeeded(req[r])
              /\ Payload(req[r]).pageInfo.hasNextPage = req[r].reply.data.pageInfo.hasNextPage
              /\ Payload(req[r]).pageInfo.endCursor = req[r].reply.data.pageInfo.endCursor
        /\ (req[r].name = "get_unresolved_threads" /\ req[r].calls > 0) =>
              req[r].op.variables.after =
                 IF req[r].args.after.kind = "undefined" THEN Null ELSE req[r].args.after.s

(* a second page asked with after = "c1": the remote cursor comes back although the
   page's only thread was filtered out *)
C6_Witness ==
    \E r \in Reqs :
        /\ GotPage(req[r])
        /\ req[r].args.after = Str(Cursor(1))
        /\ req[r].op.variables.after = Cursor(1)
        /\ Payload(req[r]).count = 0
        /\ Payload(req[r]).pageInfo.endCursor = Cursor(2)

StartsWith(text, prefix) ==
    Len(text) >= Len(prefix) /\ SubSeq(text, 1, Len(prefix)) = prefix

(* C7: a remote answer without a repository fails with a not-found message naming
   owner/repo; one with a repository but without a pull request fails with a
   different not-found message naming the pull-request number; neither returns a
   thread list. *)
C7_NotFoundDistinguished ==
    \A r \in Reqs :
        (req[r].pc = "done" /\ req[r].name = "get_unresolved_threads"
            /\ req[r].reply.kind = "data") =>
            LET data == req[r].reply.data
                a == req[r].args
            IN  /\ ~data.hasRepository =>
                      /\ Failed(req[r])
                      /\ StartsWith(FailureText(req[r]), << "Repository", "not", "found:" >>)
                      /\ Includes(FailureText(req[r]), << a.owner.s, "/", a.repo.s >>)
                /\ (data.hasRepository /\ ~data.hasPullRequest) =>
                      /\ Failed(req[r])
                      /\ StartsWith(FailureText(req[r]), << "Pull", "request", "not", "found:" >>)
                      /\ ("#" \o NumToString(a.pullRequestNumber.n)) \in Words(FailureText(req[r]))
                      /\ ~StartsWith(FailureText(req[r]), << "Repository" >>)

(* the repository exists, pull request #2 does not *)
C7_Witness ==
    \E r \in Reqs :
        /\ req[r].pc = "done"
        /\ req[r].reply.kind = "data"
        /\ req[r].reply.data = NoPullRequest
        /\ req[r].args.pullRequestNumber = Num(4)
        /\ "#2" \in Words(FailureText(req[r]))

C7_WitnessRepository ==
    \E r \in Reqs :
        /\ req[r].pc = "done"
        /\ req[r].reply.kind = "data"
        /\ req[r].reply.data = NoRepository
        /\ req[r].args.repo = Str("other")
        /\ Includes(FailureText(req[r]), << "octo", "/", "other" >>)

(* C8: a failed call is classified by the text it carries: with the bad-credentials
   marker the message is the fixed authentication text, which does not contain the
   credential; otherwise with the missing-resource marker it is a not-found message
   containing the remote text; otherwise it contains the remote text unchanged. No
   further remote operation follows. *)
C8_FailureClassified ==
    \A r \in Reqs :
        req[r].reply.kind = "throw" =>
            LET text == req[r].reply.message
                msg == FailureText(req[r])
            IN  /\ Failed(req[r])
                /\ req[r].calls = 1
                /\ IF Includes(text, << "Bad", "credentials" >>)
                   THEN /\ msg = << "Authentication", "failed:", "Invalid", "GITHUB_TOKEN", "/",
                                  "ja:authentication-failed" >>
                        /\ GITHUB_TOKEN.value \notin Words(msg)
                   ELSE IF Includes(text, << "Not", "Found" >>)
                   THEN /\ StartsWith(msg, << "Resource", "not", "found" >>)
                        /\ SubSeq(msg, Len(msg) - Len(text) + 1, Len(msg)) = text
                   ELSE /\ ~StartsWith(msg, << "Resource", "not", "found" >>)
                        /\ ~StartsWith(msg, << "Authentication" >>)
                        /\ SubSeq(msg, Len(msg) - Len(text) + 1, Len(msg)) = text

(* the remote text holds the marker and the credential itself *)
C8_Witness ==
    \E r \in Reqs :
        /\ req[r].pc = "done"
        /\ req[r].reply.kind = "throw"
        /\ Includes(req[r].reply.message, BadCredentials)
        /\ GITHUB_TOKEN.value \in Words(req[r].reply.message)
        /\ req[r].result.isError

(* an invocation that ends in failure, of any of the five kinds *)
FailureCase(slot) ==
    /\ slot.pc = "done"
    /\ \/ slot.name \notin ToolNames
       \/ Offending(slot.name, slot.args) # {}
       \/ slot.reply.kind = "throw"
       \/ /\ slot.name = "get_unresolved_threads"
          /\ slot.reply.kind = "data"
          /\ ~(slot.reply.data.hasRepository /\ slot.reply.data.hasPullRequest)

C9_FailureEnvelope ==
    \A r \in Reqs :
        FailureCase(req[r]) =>
            /\ req[r].result.isError
            /\ Len(req[r].result.content) = 1
            /\ req[r].result.content[1].type = "text"
            /\ DOMAIN req[r].result.content[1].text = { "error" }
            /\ Len(FailureText(req[r])) > 0
            /\ phase = "ready"
            /\ exitCode = -1

(* C9: every failed invocation is answered by an envelope with the error flag and
   one message; the step that fails changes no other invocation and not the remote
   threads; the process keeps running and the gateway stays Ready, so a free slot
   can receive the next request. *)
C9_FailuresAreLocal ==
    /\ [](C9_FailureEnvelope)
    /\ [][phase = "ready" => (phase' = "ready" /\ exitCode' = exitCode)]_vars
    /\ [][\A r \in Reqs :
             (~FailureCase(req[r]) /\ FailureCase(req'[r])) =>
                 /\ threads' = threads
                 /\ \A o \in Reqs \ { r } : req'[o] = req[o]]_vars
    /\ []((phase = "ready" /\ \E r \in Reqs : req[r].result.isError) =>
             \A r \in Serial :
                 req[r].pc = "idle" => ENABLED (\E q \in Requests : Receive(r, q.name, q.bag)))

(* a validation failure is waiting to be delivered *)
C9_Witness ==
    \E r \in Reqs :
        /\ FailureCase(req[r])
        /\ req[r].name = "resolve_conversation"
        /\ req[r].args.threadId = Num(2)
        /\ req[r].result.isError
        /\ phase = "ready"

GatewayState ==
    CASE phase \in { "load", "connect" } -> "Uninitialized"
      [] phase = "ready" -> "Ready"
      [] phase = "exited" -> "Failed"

Quiet == \A r \in Reqs : req[r] = IdleSlot

(* C10: the gateway is Uninitialized, Ready or Failed; outside Ready no request is
   serviced and no operation is sent; Ready is entered only when the connection
   completes; Failed is entered only during start-up, on a missing credential or a
   failed connection, with a non-zero exit code, and is never left. *)
C10_GatewayStates ==
    /\ [](GatewayState # "Ready" => Quiet)
    /\ [](GatewayState = "Failed" <=> exitCode # -1)
    /\ [](GatewayState = "Ready" => GITHUB_TOKEN.value # "")
    /\ [][(GatewayState # "Ready" /\ GatewayState' = "Ready") => phase = "connect"]_vars
    /\ [][(GatewayState # "Failed" /\ GatewayState' = "Failed") =>
             /\ GatewayState = "Uninitialized"
             /\ exitCode' = 1
             /\ (phase = "load" => GITHUB_TOKEN.value = "")]_vars
    /\ [][GatewayState = "Failed" => UNCHANGED vars]_vars
    /\ [][GatewayState = "Ready" => GatewayState' = "Ready"]_vars

(* the connection was refused: the process has exited although the credential was set *)
C10_Witness ==
    /\ GatewayState = "Failed"
    /\ GITHUB_TOKEN.value # ""
    /\ exitCode = 1

C10_WitnessReady ==
    /\ GatewayState = "Ready"
    /\ \E r \in Reqs : req[r].pc = "waiting"

-----------------------------------------------------------------------------
ResolveDone(slot) ==
    /\ slot.pc = "done"
    /\ slot.name = "resolve_conversation"
    /\ slot.reply.kind = "data"

(* C11 as stated: the threadId of a successful resolve_conversation result is the
   identifier the caller supplied. *)
C11_EchoesCallerId ==
    \A r \in Reqs :
        ResolveDone(req[r]) => Payload(req[r]).threadId = req[r].args.threadId.s

(* C11, amended: a successful resolve_conversation returns success = true with the
   thread id and the isResolved value of the remote's answer, which is the caller's
   identifier whenever the remote answers under the identifier it was addressed by;
   the result for a thread is the same whether or not it was resolved before; every
   operation sent is one of the three documents, and no step turns a resolved
   thread unresolved. *)
C11_ResolveReportsRemote ==
    /\ [](\A r \in Reqs :
            ResolveDone(req[r]) =>
                /\ Succeeded(req[r])
                /\ req[r].calls = 1
                /\ req[r].op.variables = [threadId |-> req[r].args.threadId.s]
                /\ Payload(req[r]) =
                       [success |-> TRUE,
                        threadId |-> req[r].reply.data.thread.id,
                        isResolved |-> req[r].reply.data.thread.isResolved]
                /\ \E k \in Addressed(threads, req[r].args.threadId.s) :
                       /\ threads[k].isResolved
                       /\ Payload(req[r]) =
                              [success |-> TRUE, threadId |-> threads[k].id,
                               isResolved |-> TRUE]
                /\ (req[r].reply.data.thread.id = req[r].args.threadId.s
                        => Payload(req[r]).threadId = req[r].args.threadId.s))
    /\ [](\A r \in Reqs :
            req[r].op # NoOp =>
                req[r].op.query \in { "GET_UNRESOLVED_THREADS_QUERY",
                                      "RESOLVE_THREAD_MUTATION", "ADD_REPLY_MUTATION" })
    /\ [][/\ Len(threads') = Len(threads)
           /\ \A k \in 1..Len(threads) :
                 threads[k].isResolved => threads'[k].isResolved]_vars

(* resolve_conversation has succeeded on the thread that was resolved from the start,
   addressed by its own id *)
C11_Witness ==
    \E r \in Reqs :
        /\ ResolveDone(req[r])
        /\ Payload(req[r]).threadId = req[r].args.threadId.s
        /\ \E k \in 1..Len(threads) :
              /\ threads[k].id = req[r].args.threadId.s
              /\ Len(threads[k].comments) > 0
              /\ threads[k].comments[1].author = "bob"

-----------------------------------------------------------------------------
ReplyWithStrings(slot) ==
    /\ slot.name = "reply_to_thread"
    /\ slot.args.threadId.kind = "string"
    /\ slot.args.body.kind = "string"

(* C12: reply_to_thread with a string threadId and any string body, the empty one
   included, is never rejected locally; it sends one reply mutation with exactly
   that threadId and body; on a remote answer it returns success = true and the
   URL of the answer unchanged; a remote refusal of the body comes back as a
   failure of the category other, "GraphQL Error: " followed by the remote text. *)
C12_ReplyPassesThrough ==
    \A r \in Reqs :
        (req[r].pc # "idle" /\ ReplyWithStrings(req[r])) =>
            /\ req[r].validated
            /\ req[r].calls = 1
            /\ req[r].op = [query |-> "ADD_REPLY_MUTATION",
                            variables |-> [threadId |-> req[r].args.threadId.s,
                                           body |-> req[r].args.body.s]]
            /\ (req[r].pc = "done" /\ req[r].reply.kind = "data") =>
                   /\ Succeeded(req[r])
                   /\ Payload(req[r]) =
                          [success |-> TRUE, commentUrl |-> req[r].reply.data.url]
            /\ (req[r].pc = "done" /\ req[r].reply = Throw(TRUE, BodyRejected)) =>
                   /\ Failed(req[r])
                   /\ FailureText(req[r]) = GraphQLError \o BodyRejected

(* the empty body went out and the remote refused it *)
C12_Witness ==
    \E r \in Reqs :
        /\ req[r].pc = "done"
        /\ ReplyWithStrings(req[r])
        /\ req[r].args.body.s = ""
        /\ req[r].op.variables.body = ""
        /\ req[r].reply = Throw(TRUE, BodyRejected)

(* a reply was posted and its URL returned *)
C12_WitnessPosted ==
    \E r \in Reqs :
        /\ ReplyWithStrings(req[r])
        /\ Succeeded(req[r])
        /\ req[r].args.threadId.s = LegacyId(ThreadId(1))

-----------------------------------------------------------------------------
(* numbers are counted in halves: an integer is an even count *)
IsInteger(v) == v.kind = "number" /\ v.n % 2 = 0

GetSlot(slot) == slot.pc # "idle" /\ slot.name = "get_unresolved_threads"

(* the calls C13 says validation turns away *)
OutsideContract(bag) ==
    \/ bag.limit.kind = "number" /\ bag.limit.n < 2 * LimitMin
    \/ bag.limit.kind = "number" /\ bag.limit.n > 2 * LimitMax
    \/ bag.limit.kind = "number" /\ ~IsInteger(bag.limit)
    \/ bag.pullRequestNumber.kind = "number" /\ ~IsInteger(bag.pullRequestNumber)
    \/ bag.owner = Str("")
    \/ bag.repo = Str("")

(* C13 as stated: every get_unresolved_threads query sent carries an integer page
   size in [1,100] and an integer pull-request number, the page size being the
   caller's limit or 5 when omitted; a call with limit below 1, above 100 or not an
   integer, a non-integer pullRequestNumber, or an empty owner or repo is rejected
   by validation without a remote call. *)
C13_IntegerPageSize ==
    \A r \in Reqs :
        GetSlot(req[r]) =>
            /\ req[r].op # NoOp =>
                   /\ req[r].op.variables.first % 2 = 0
                   /\ req[r].op.variables.first >= 2 * LimitMin
                   /\ req[r].op.variables.first <= 2 * LimitMax
                   /\ req[r].op.variables.pullRequestNumber % 2 = 0
                   /\ req[r].op.variables.first =
                          IF req[r].args.limit.kind = "undefined" THEN 2 * LimitDefault
                          ELSE req[r].args.limit.n
            /\ OutsideContract(req[r].args) =>
                   /\ Failed(req[r])
                   /\ req[r].op = NoOp
                   /\ req[r].calls = 0

(* C13, what the validation does enforce: every get_unresolved_threads query sent
   carries a page size between 1 and 100, equal to the caller's limit or 5 when
   omitted, and the caller's pullRequestNumber; a call with limit below 1 or above
   100 is rejected without a remote call. *)
C13_PageSizeAsParsed ==
    \A r \in Reqs :
        GetSlot(req[r]) =>
            /\ req[r].op # NoOp =>
                   /\ req[r].op.variables.first >= 2 * LimitMin
                   /\ req[r].op.variables.first <= 2 * LimitMax
                   /\ req[r].op.variables.pullRequestNumber = req[r].args.pullRequestNumber.n
                   /\ req[r].op.variables.first =
                          IF req[r].args.limit.kind = "undefined" THEN 2 * LimitDefault
                          ELSE req[r].args.limit.n
            /\ (req[r].args.limit.kind = "number"
                  /\ (req[r].args.limit.n < 2 * LimitMin \/ req[r].args.limit.n > 2 * LimitMax)) =>
                   /\ Failed(req[r])
                   /\ req[r].op = NoOp
                   /\ req[r].calls = 0

(* limit = 1.5 passed validation and went out as the page size *)
C13_Witness ==
    \E r \in Reqs :
        /\ GetSlot(req[r])
        /\ req[r].args.limit = Num(3)
        /\ req[r].validated
        /\ req[r].op # NoOp
        /\ req[r].op.variables.first = 3

(* an empty owner passed validation and the query was sent *)
C13_WitnessEmptyOwner ==
    \E r \in Reqs :
        /\ GetSlot(req[r])
        /\ req[r].args.owner = Str("")
        /\ req[r].op # NoOp
        /\ req[r].op.variables.owner = ""

(* limit = 100.5 was rejected, limit omitted went out as 5 *)
C13_WitnessDefault ==
    \E r \in Reqs :
        /\ GetSlot(req[r])
        /\ req[r].args.limit = Undefined
        /\ req[r].op # NoOp
        /\ req[r].op.variables.first = 2 * LimitDefault

-----------------------------------------------------------------------------
(* C15: in a get_unresolved_threads result, an unresolved thread without comments
   is returned with firstComment = null and the call succeeds; a thread with a
   comment is returned with the body of its first comment and the login of its
   author, or "unknown" when the comment has no author. *)
C15_FirstCommentOrNull ==
    \A r \in Reqs :
        GotPage(req[r]) =>
            LET nodes == req[r].reply.data.nodes
                out == Payload(req[r])
            IN  /\ Succeeded(req[r])
                /\ Len(out.threads) = UnresolvedCount(nodes)
                /\ \A i \in 1..Len(out.threads) :
                      LET thread == nodes[NthUnresolved(nodes, i)]
                          first == out.threads[i].firstComment
                      IN  IF Len(thread.comments) = 0
                          THEN first.isNull
                          ELSE /\ ~first.isNull
                               /\ first.body = thread.comments[1].body
                               /\ first.author # Null
                               /\ first.author =
                                      IF thread.comments[1].author = Null THEN "unknown"
                                      ELSE thread.comments[1].author

(* one page with a thread without comments and a thread whose author is gone *)
C15_Witness ==
    \E r \in Reqs :
        /\ GotPage(req[r])
        /\ Succeeded(req[r])
        /\ \E i, j \in 1..Len(Payload(req[r]).threads) :
              /\ Payload(req[r]).threads[i].firstComment.isNull
              /\ ~Payload(req[r]).threads[j].firstComment.isNull
              /\ Payload(req[r]).threads[j].firstComment.author = "unknown"
              /\ Payload(req[r]).threads[j].firstComment.body = "ghost wrote"

(* a thread whose first comment has an author *)
C15_WitnessAuthor ==
    \E r \in Reqs :
        /\ GotPage(req[r])
        /\ \E i \in 1..Len(Payload(req[r]).threads) :
              Payload(req[r]).threads[i].firstComment.author = "alice"

-----------------------------------------------------------------------------
(* what a request comes to, computed from its own name, arguments and remote answer *)
OwnOutcome(slot) ==
    LET started == Dispatch(slot.caller, slot.name, slot.args)
    IN  IF started.pc = "waiting" /\ slot.pc = "done"
        THEN Resume(started, slot.reply)
        ELSE started

(* C14: while one request waits for its remote operation another can be received,
   answered by the remote and delivered; under every interleaving a request is what
   its own arguments and its own remote answer make it; a step of one request
   changes no other request; and nothing changes the credential the client was
   configured with. *)
C14_RequestsIndependent ==
    /\ [](\A r \in Reqs : req[r].pc # "idle" => req[r] = OwnOutcome(req[r]))
    /\ [][\A r, s \in Reqs : (r # s /\ req'[r] # req[r]) => req'[s] = req[s]]_vars
    /\ [][GITHUB_TOKEN' = GITHUB_TOKEN]_vars
    /\ [](\A r, s \in Reqs :
            (r # s /\ phase = "ready" /\ req[r].pc = "waiting") =>
                /\ req[s].pc = "idle" =>
                       \A q \in ConcurrentRequests : ENABLED Receive(s, q.name, q.bag)
                /\ req[s].pc = "waiting" => ENABLED RemoteReply(s)
                /\ req[s].pc = "done" => ENABLED Deliver(s))

(* a request has its result while the other is still waiting for its remote call *)
C14_Witness ==
    \E r, s \in Reqs :
        /\ r # s
        /\ req[r].pc = "waiting"
        /\ req[r].name = "resolve_conversation"
        /\ req[s].name = "get_unresolved_threads"
        /\ GotPage(req[s])
        /\ Succeeded(req[s])

(* both requests are waiting at once *)
C14_WitnessBothWaiting ==
    \A r \in Reqs : req[r].pc = "waiting"

====
